---- MODULE Spec2Model ----
(***************************************************************************)
(* A model of find-unlinked-assets.mjs: the startup validation, the        *)
(* paginated scan of findUnlinkedAssets, the report write of main and the  *)
(* pure helper formatFileSize.  Every `await` of the script is two steps:  *)
(* the call is issued (it joins `pending`) and the call is answered (it    *)
(* leaves `pending` and the script continues, or the catch block runs).    *)
(* The content repository is the sequence of its asset ids in creation     *)
(* order and the number of entries that link to each asset.                *)
(***************************************************************************)
EXTENDS Integers, Sequences, FiniteSets, TLC

\* ------------------------------------------------------------------ bounds
\* Largest number of assets in the repository at the start of a run.
MaxAssets == 3
\* Largest page size.  The script fixes limit = 100 (line 48); the loop reads
\* it only in `skip += limit` and `assets.length < limit`, so the model draws
\* the page size from 1..MaxLimit to meet N < P, N = P, N = P + 1 and N = 2P.
MaxLimit == 2
\* Largest number of entries that link to one asset.
MaxRefs == 2
\* Largest number of changes made to the repository while a scan runs.
MaxMutations == 1
\* Largest power of 1024 a byte count handed to formatFileSize is scaled by.
MaxExp == 5

VARIABLES
    SPACE_ID, ENVIRONMENT, ACCESS_TOKEN, \* process.env (line 10)
    client,          \* the Contentful client (line 23)
    pc,              \* position of the script
    exitCode,        \* process exit code, Running while the process lives
    unlinkedAssets,  \* line 46
    skip,            \* line 47
    limit,           \* line 48
    hasMoreAssets,   \* line 49
    assets,          \* line 65: the page being processed
    idx,             \* position of the for-of loop of line 73 in `assets`
    pending,         \* calls awaited and not yet answered
    repoAssets,      \* the repository: asset ids ordered by sys.createdAt
    refs,            \* the repository: number of entries linking to each asset
    report,          \* content of the written file, NoFile while none exists
    summary,         \* what the console summary printed (lines 156-197)
    failed,          \* the catch block of line 123 has run
    calls,           \* history: every call issued, in order
    fetched,         \* history: the pages answered, concatenated
    answers,         \* history: every answered reference query, in order
    mutations,       \* history: number of repository changes during the scan
    fmtIn,           \* argument of the formatFileSize run
    fmtOut,          \* result of formatFileSize(fmtIn)
    fmtField         \* result of the fileSize expression of line 101

vars == << SPACE_ID, ENVIRONMENT, ACCESS_TOKEN, client, pc, exitCode,
           unlinkedAssets, skip, limit, hasMoreAssets, assets, idx, pending,
           repoAssets, refs, report, summary, failed, calls, fetched, answers,
           mutations, fmtIn, fmtOut, fmtField >>

scanVars == << unlinkedAssets, skip, hasMoreAssets, assets, idx >>
envVars  == << SPACE_ID, ENVIRONMENT, ACCESS_TOKEN, client, limit >>
fmtVars  == << fmtIn, fmtOut, fmtField >>
repoVars == << repoAssets, refs, mutations >>
outVars  == << report, summary, exitCode >>

\* ------------------------------------------------------------ JS values
\* An absent environment variable or property reads as undefined.
Undefined == "undefined"
\* Exit code of a process that has not exited.
Running == -1
\* No report file exists.
NoFile == [written |-> FALSE, content |-> << >>]

\* !v for the string-or-undefined values of process.env
FalsyEnv(v) == v = Undefined \/ v = ""

\* A value handed to formatFileSize.  A number is m * 1024^e (m >= 0), which
\* keeps 1024^5 and counts below 1 inside TLC's integers.
JsUndefined == [type |-> "undefined", m |-> 0, e |-> 0, s |-> ""]
JsNull      == [type |-> "null",      m |-> 0, e |-> 0, s |-> ""]
JsNaN       == [type |-> "NaN",       m |-> 0, e |-> 0, s |-> ""]
JsString(t) == [type |-> "string",    m |-> 0, e |-> 0, s |-> t]
JsNumber(mant, exp) == [type |-> "number", m |-> mant,
                        e |-> IF mant = 0 THEN 0 ELSE exp, s |-> ""]

\* !bytes
Falsy(v) ==
    \/ v.type \in {"undefined", "null", "NaN"}
    \/ v.type = "string" /\ v.s = ""
    \/ v.type = "number" /\ v.m = 0

\* isNaN(bytes): Number(bytes) is NaN.  The strings of the model are empty
\* or non-numeric; Number(null) and Number("") are 0.
isNaN(v) ==
    \/ v.type \in {"undefined", "NaN"}
    \/ v.type = "string" /\ v.s # ""

\* bytes === 0
StrictZero(v) == v.type = "number" /\ v.m = 0

RECURSIVE Pow1024(_)
Pow1024(k) == IF k <= 0 THEN 1 ELSE 1024 * Pow1024(k - 1)

\* floor(log(m) / log(1024)) for an integer m >= 1
RECURSIVE FloorLog1024(_)
FloorLog1024(m) == IF m < 1024 THEN 0 ELSE 1 + FloorLog1024(m \div 1024)

\* line 40: parseInt(Math.floor(Math.log(bytes) / Math.log(1024)), 10)
Magnitude(v) == v.e + FloorLog1024(v.m)

\* line 38 and the read sizes[i] of line 41; an index outside the array reads
\* undefined, which the template literal renders as "undefined"
sizes == << "Bytes", "KB", "MB", "GB", "TB" >>
SizesAt(i) == IF i + 1 \in DOMAIN sizes THEN sizes[i + 1] ELSE Undefined

TwoDigits(n) == IF n < 10 THEN "0" \o ToString(n) ELSE ToString(n)

\* (m / 1024^k).toFixed(2): the nearest multiple of 0.01, the larger of two
\* equally near ones
ToFixed2(m, k) ==
    LET h == (200 * m + Pow1024(k)) \div (2 * Pow1024(k))
    IN  ToString(h \div 100) \o "." \o TwoDigits(h % 100)

\* lines 35-42
formatFileSize(bytes) ==
    IF Falsy(bytes) \/ isNaN(bytes) THEN "Unknown"
    ELSE IF StrictZero(bytes) THEN "0 Bytes"
    ELSE LET i == Magnitude(bytes)
         IN  ToFixed2(bytes.m, i - bytes.e) \o " " \o SizesAt(i)

\* line 101: fileSize ? formatFileSize(fileSize) : "Unknown"
FileSizeField(fileSize) ==
    IF Falsy(fileSize) THEN "Unknown" ELSE formatFileSize(fileSize)

\* lines 30-32
getContentfulWebAppUrl(spaceId, assetId, environmentId) ==
    "https://app.contentful.com/spaces/" \o spaceId \o "/environments/"
        \o environmentId \o "/assets/" \o ToString(assetId)

\* ENVIRONMENT || "master" (lines 25, 89, 142)
EnvironmentOrMaster == IF FalsyEnv(ENVIRONMENT) THEN "master" ELSE ENVIRONMENT


\* ----------------------------------------------------------- repository
\* details.size of the file of each asset: asset 1 has no file, asset 2 is
\* empty, the others have 1536, 1024, 1024^5 and 1 bytes
AssetSize(id) ==
    CASE id = 1 -> JsUndefined
      [] id = 2 -> JsNumber(0, 0)
      [] id = 3 -> JsNumber(1536, 0)
      [] id = 4 -> JsNumber(1, 1)
      [] id = 5 -> JsNumber(1, 5)
      [] OTHER  -> JsNumber(1, 0)

Min(a, b) == IF a <= b THEN a ELSE b

\* client.getAssets({skip, limit, order: "sys.createdAt"}).items (lines 59-65)
Page(s, l) ==
    IF s >= Len(repoAssets) THEN << >>
    ELSE SubSeq(repoAssets, s + 1, Min(s + l, Len(repoAssets)))

\* client.getEntries({links_to_asset: assetId, limit: 1}).total (lines 77-80)
Total(assetId) == refs[assetId]

\* lines 96-105: the report entry of an unlinked asset
Entry(assetId) ==
    [ id            |-> assetId,
      fileSize      |-> FileSizeField(AssetSize(assetId)),
      contentfulUrl |-> getContentfulWebAppUrl(SPACE_ID, assetId,
                                               EnvironmentOrMaster) ]

Call(op, arg) == [op |-> op, arg |-> arg]
RepoOps == {"getAssets", "getEntries"}

\* ------------------------------------------------------------- decisions
\* line 13: !SPACE_ID || !ACCESS_TOKEN
ConfigMissingAnd == FalsyEnv(SPACE_ID) /\ FalsyEnv(ACCESS_TOKEN)
ConfigMissing == FalsyEnv(SPACE_ID) \/ FalsyEnv(ACCESS_TOKEN)

\* line 83: linkedEntries.total === 0
IsUnlinkedAtMostOne(total) == total <= 1
IsUnlinked(total) == total = 0

\* line 117: skip += limit
NextSkipOffByOne(s, l) == s + l + 1
NextSkip(s, l) == s + l

\* line 120: assets.length < limit
IsShortPageOrFull(n, l) == n <= l
IsShortPageNever(n, l) == FALSE
IsShortPage(n, l) == n < l

\* lines 73-80: the for-of loop awaits the reference query of one asset
\* before it moves to the next one
ChecksToIssueAll == { assets[j] : j \in idx..Len(assets) }
ChecksToIssue == { assets[idx] }

\* lines 123-129: the catch block keeps what was accumulated and ends the loop
AfterBatchErrorRetry == [list |-> unlinkedAssets, more |-> hasMoreAssets]
AfterBatchError == [list |-> unlinkedAssets, more |-> FALSE]

\* lines 198-201 and the normal end of main: the exit code of a run that has
\* its configuration
ExitCodeAlwaysZero(writeOk) == 0
ExitCodeOfRun(writeOk) == IF writeOk THEN 0 ELSE 1

\* ---------------------------------------------------------------- script
EnvSpaceIds == {Undefined, "", "space1"}
EnvTokens   == {Undefined, "", "token1"}
EnvNames    == {Undefined, "staging"}

\* At the start of a run an asset has no linking entry or one; entries added
\* while the scan runs raise the count up to MaxRefs.
InitialRefs == {0, 1}

NoClient == [space |-> Undefined, environment |-> Undefined,
             accessToken |-> Undefined]

Init ==
    /\ SPACE_ID \in EnvSpaceIds
    /\ ACCESS_TOKEN \in EnvTokens
    /\ ENVIRONMENT \in EnvNames
    /\ client = NoClient
    /\ pc = "startup"
    /\ exitCode = Running
    /\ unlinkedAssets = << >>
    /\ skip = 0
    /\ limit \in 1..MaxLimit
    /\ hasMoreAssets = TRUE
    /\ assets = << >>
    /\ idx = 1
    /\ pending = {}
    /\ \E n \in 0..MaxAssets :
          /\ repoAssets = [i \in 1..n |-> i]
          /\ refs \in [1..n -> InitialRefs]
    /\ report = NoFile
    /\ summary = "none"
    /\ failed = FALSE
    /\ calls = << >>
    /\ fetched = << >>
    /\ answers = << >>
    /\ mutations = 0
    /\ fmtIn = JsUndefined
    /\ fmtOut = ""
    /\ fmtField = ""

\* lines 10-27: validate the environment, then create the client
Startup ==
    /\ pc = "startup"
    /\ IF ConfigMissing
          THEN /\ exitCode' = 1
               /\ pc' = "exited"
               /\ UNCHANGED client
          ELSE /\ client' = [space |-> SPACE_ID,
                             environment |-> EnvironmentOrMaster,
                             accessToken |-> ACCESS_TOKEN]
               /\ pc' = "main"
               /\ UNCHANGED exitCode
    /\ UNCHANGED << SPACE_ID, ENVIRONMENT, ACCESS_TOKEN, limit, scanVars,
                    pending, repoVars, report, summary, failed, calls,
                    fetched, answers, fmtVars >>

\* lines 204, 136-145 and 45-51: main calls findUnlinkedAssets
StartScan ==
    /\ pc = "main"
    /\ unlinkedAssets' = << >>
    /\ skip' = 0
    /\ hasMoreAssets' = TRUE
    /\ pc' = "loop"
    /\ UNCHANGED << envVars, assets, idx, pending, repoVars, outVars, failed,
                    calls, fetched, answers, fmtVars >>

\* lines 53-63: the loop test holds and the next page is requested
RequestPage ==
    /\ pc = "loop"
    /\ hasMoreAssets
    /\ pending' = pending \cup {Call("getAssets", skip)}
    /\ calls' = Append(calls, Call("getAssets", skip))
    /\ pc' = "awaitAssets"
    /\ UNCHANGED << envVars, scanVars, repoVars, outVars, failed, fetched,
                    answers, fmtVars >>

\* lines 65-73: the page arrives; an empty page ends the loop
AssetsResponse ==
    /\ pc = "awaitAssets"
    /\ \E c \in pending :
          /\ c.op = "getAssets"
          /\ pending' = pending \ {c}
          /\ LET items == Page(c.arg, limit)
             IN  /\ fetched' = fetched \o items
                 /\ assets' = items
                 /\ idx' = 1
                 /\ IF Len(items) = 0
                       THEN /\ hasMoreAssets' = FALSE
                            /\ pc' = "loop"
                       ELSE /\ UNCHANGED hasMoreAssets
                            /\ pc' = "check"
    /\ UNCHANGED << envVars, unlinkedAssets, skip, repoVars, outVars, failed,
                    calls, answers, fmtVars >>

\* lines 73-80: the reference query of the next asset of the page is issued
RequestEntries ==
    /\ pc = "check"
    /\ idx <= Len(assets)
    /\ pending' = pending \cup { Call("getEntries", a) : a \in ChecksToIssue }
    /\ calls' = Append(calls, Call("getEntries", assets[idx]))
    /\ pc' = "awaitEntries"
    /\ UNCHANGED << envVars, scanVars, repoVars, outVars, failed, fetched,
                    answers, fmtVars >>

\* lines 83-114: the query is answered; an asset with no linking entry is
\* appended to the list
EntriesResponse ==
    /\ pc = "awaitEntries"
    /\ \E c \in pending :
          /\ c.op = "getEntries"
          /\ c.arg = assets[idx]
          /\ pending' = pending \ {c}
          /\ LET total == Total(c.arg)
             IN  /\ answers' = Append(answers, [id |-> c.arg, total |-> total])
                 /\ unlinkedAssets' =
                        IF IsUnlinked(total)
                           THEN Append(unlinkedAssets, Entry(c.arg))
                           ELSE unlinkedAssets
    /\ idx' = idx + 1
    /\ pc' = "check"
    /\ UNCHANGED << envVars, skip, hasMoreAssets, assets, repoVars, outVars,
                    failed, calls, fetched, fmtVars >>

\* lines 116-122: the page is done
EndOfPage ==
    /\ pc = "check"
    /\ idx > Len(assets)
    /\ skip' = NextSkip(skip, limit)
    /\ hasMoreAssets' = IF IsShortPage(Len(assets), limit)
                           THEN FALSE ELSE hasMoreAssets
    /\ pc' = "loop"
    /\ UNCHANGED << envVars, unlinkedAssets, assets, idx, pending, repoVars,
                    outVars, failed, calls, fetched, answers, fmtVars >>

\* lines 123-129: the awaited call rejects and the catch block runs
BatchError ==
    /\ pc \in {"awaitAssets", "awaitEntries"}
    /\ \E c \in pending :
          /\ c.op \in RepoOps
          /\ pending' = pending \ {c}
    /\ unlinkedAssets' = AfterBatchError.list
    /\ hasMoreAssets' = AfterBatchError.more
    /\ failed' = TRUE
    /\ pc' = "loop"
    /\ UNCHANGED << envVars, skip, assets, idx, repoVars, outVars, calls,
                    fetched, answers, fmtVars >>

\* lines 53, 132, 145-154: the loop ends, the list is returned and main
\* starts the report write
WriteReport ==
    /\ pc = "loop"
    /\ ~hasMoreAssets
    /\ pending' = pending \cup {Call("writeFile", 0)}
    /\ calls' = Append(calls, Call("writeFile", 0))
    /\ pc' = "awaitWrite"
    /\ UNCHANGED << envVars, scanVars, repoVars, outVars, failed, fetched,
                    answers, fmtVars >>

\* lines 154-197 and the end of main: the file is written, the summary is
\* printed and the process ends
WriteOk ==
    /\ pc = "awaitWrite"
    /\ \E c \in pending :
          /\ c.op = "writeFile"
          /\ pending' = pending \ {c}
    /\ report' = [written |-> TRUE, content |-> unlinkedAssets]
    /\ summary' = IF Len(unlinkedAssets) > 0 THEN "list" ELSE "well-organized"
    /\ exitCode' = ExitCodeOfRun(TRUE)
    /\ pc' = "exited"
    /\ UNCHANGED << envVars, scanVars, repoVars, failed, calls, fetched,
                    answers, fmtVars >>

\* lines 154, 198-201: the write rejects, main's catch block exits
WriteError ==
    /\ pc = "awaitWrite"
    /\ \E c \in pending :
          /\ c.op = "writeFile"
          /\ pending' = pending \ {c}
    /\ exitCode' = ExitCodeOfRun(FALSE)
    /\ pc' = "exited"
    /\ UNCHANGED << envVars, scanVars, repoVars, report, summary, failed,
                    calls, fetched, answers, fmtVars >>

\* ------------------------------------------------- repository, concurrently
\* The script sees the repository only in the answers to its calls, so a
\* change made between two calls is seen exactly as a change made while the
\* later call is outstanding: the changes are taken while a call of the scan
\* is outstanding.
Scanning == pc \in {"awaitAssets", "awaitEntries"}

\* an entry that links to asset a is published while the scan runs
AddReference ==
    /\ Scanning
    /\ mutations < MaxMutations
    /\ \E a \in DOMAIN refs :
          /\ refs[a] < MaxRefs
          /\ refs' = [refs EXCEPT ![a] = @ + 1]
    /\ mutations' = mutations + 1
    /\ UNCHANGED << envVars, pc, scanVars, pending, repoAssets, outVars,
                    failed, calls, fetched, answers, fmtVars >>

\* an entry that links to asset a is removed while the scan runs
RemoveReference ==
    /\ Scanning
    /\ mutations < MaxMutations
    /\ \E a \in DOMAIN refs :
          /\ refs[a] > 0
          /\ refs' = [refs EXCEPT ![a] = @ - 1]
    /\ mutations' = mutations + 1
    /\ UNCHANGED << envVars, pc, scanVars, pending, repoAssets, outVars,
                    failed, calls, fetched, answers, fmtVars >>

\* an asset is deleted while the scan runs; the later assets move up one
\* place in the listing, and the entries that linked to it keep their links
DeleteAsset ==
    /\ Scanning
    /\ mutations < MaxMutations
    /\ \E k \in 1..Len(repoAssets) :
          repoAssets' = [i \in 1..(Len(repoAssets) - 1) |->
                            IF i < k THEN repoAssets[i] ELSE repoAssets[i + 1]]
    /\ mutations' = mutations + 1
    /\ UNCHANGED << envVars, pc, scanVars, pending, refs, outVars, failed,
                    calls, fetched, answers, fmtVars >>

Next ==
    \/ Startup
    \/ StartScan
    \/ RequestPage
    \/ AssetsResponse
    \/ RequestEntries
    \/ EntriesResponse
    \/ EndOfPage
    \/ BatchError
    \/ WriteReport
    \/ WriteOk
    \/ WriteError
    \/ AddReference
    \/ RemoveReference
    \/ DeleteAsset

Spec == Init /\ [][Next]_vars

\* The steps of the script and the completions of its calls.  Node runs the
\* continuation of an await once the awaited call has returned or failed.
Script ==
    \/ Startup
    \/ StartScan
    \/ RequestPage
    \/ AssetsResponse
    \/ RequestEntries
    \/ EntriesResponse
    \/ EndOfPage
    \/ BatchError
    \/ WriteReport
    \/ WriteOk
    \/ WriteError

FairSpec == Spec /\ WF_vars(Script)


\* --------------------------------------------------- formatFileSize alone
\* Byte counts m * 1024^e for m in Mantissas and e in -1..MaxExp: counts
\* below 1, fractions, integers on both sides of every unit boundary, 1024^5
\* and above; and the values that are no number.
Mantissas == {1, 2, 512, 1000, 1023, 1024, 1025, 1536, 2047, 2048,
              1048575, 1048576, 1572864}
FmtInputs ==
    {JsUndefined, JsNull, JsNaN, JsString(""), JsString("abc"), JsNumber(0, 0)}
        \cup { JsNumber(m, e) : m \in Mantissas, e \in (-1)..MaxExp }

FmtInit ==
    /\ SPACE_ID = "space1"
    /\ ACCESS_TOKEN = "token1"
    /\ ENVIRONMENT = Undefined
    /\ client = NoClient
    /\ pc = "format"
    /\ exitCode = Running
    /\ unlinkedAssets = << >>
    /\ skip = 0
    /\ limit = 1
    /\ hasMoreAssets = TRUE
    /\ assets = << >>
    /\ idx = 1
    /\ pending = {}
    /\ repoAssets = << >>
    /\ refs = << >>
    /\ report = NoFile
    /\ summary = "none"
    /\ failed = FALSE
    /\ calls = << >>
    /\ fetched = << >>
    /\ answers = << >>
    /\ mutations = 0
    /\ fmtIn \in FmtInputs
    /\ fmtOut = ""
    /\ fmtField = ""

\* lines 35-42 and 101: formatFileSize(fmtIn), and the fileSize field of an
\* asset whose details.size is fmtIn
ApplyFormat ==
    /\ pc = "format"
    /\ fmtOut' = formatFileSize(fmtIn)
    /\ fmtField' = FileSizeField(fmtIn)
    /\ pc' = "formatted"
    /\ UNCHANGED << envVars, scanVars, pending, repoVars, outVars, failed,
                    calls, fetched, answers, fmtIn >>

FmtNext == ApplyFormat

FmtSpec == FmtInit /\ [][FmtNext]_vars

\* m * 1024^e is a whole number
IsInteger(v) == v.e >= 0 \/ v.m % Pow1024(-v.e) = 0
IsPositive(v) == v.type = "number" /\ v.m > 0
NonNumeric(v) == v.type \in {"NaN", "string"} /\ ~(v.type = "string" /\ v.s = "")
Absent(v) == v.type \in {"undefined", "null"}
Range(f) == { f[x] : x \in DOMAIN f }
EndsWith(str, tail) ==
    /\ Len(str) >= Len(tail)
    /\ SubSeq(str, Len(str) - Len(tail) + 1, Len(str)) = tail

\* C6: formatFileSize returns "0 Bytes" for a literal zero, "Unknown" for an
\* absent or non-numeric byte count, and for a positive integer byte count
\* whose magnitude has a unit the value divided by 1024^magnitude with two
\* decimals and that unit; format(1024) = "1.00 KB", format(1536) = "1.50 KB".
C6_FormatContract ==
    pc = "formatted" =>
        /\ StrictZero(fmtIn) => fmtOut = "0 Bytes"
        /\ Absent(fmtIn) \/ NonNumeric(fmtIn) => fmtOut = "Unknown"
        /\ IsPositive(fmtIn) /\ IsInteger(fmtIn)
             /\ Magnitude(fmtIn) + 1 \in DOMAIN sizes
             => fmtOut = ToFixed2(fmtIn.m, Magnitude(fmtIn) - fmtIn.e)
                            \o " " \o sizes[Magnitude(fmtIn) + 1]
        /\ fmtIn = JsNumber(1024, 0) => fmtOut = "1.00 KB"
        /\ fmtIn = JsNumber(1536, 0) => fmtOut = "1.50 KB"

\* C10: for every positive numeric byte count the unit formatFileSize renders
\* is one of Bytes, KB, MB, GB, TB, also for counts of 1024^5 and above and
\* for counts below 1.
C10_UnitInTable ==
    pc = "formatted" /\ IsPositive(fmtIn) =>
        \E u \in Range(sizes) : EndsWith(fmtOut, " " \o u)


\* ------------------------------------------------------ the scan, claims
IsPageCall(c)  == c.op = "getAssets"
IsRefCall(c)   == c.op = "getEntries"
IsWriteCall(c) == c.op = "writeFile"
PageCalls  == SelectSeq(calls, IsPageCall)
RefCalls   == SelectSeq(calls, IsRefCall)
WriteCalls == SelectSeq(calls, IsWriteCall)
RepoCalls(cs) == Len(SelectSeq(cs, IsPageCall)) + Len(SelectSeq(cs, IsRefCall))
IsRepoCall(c) == c.op \in RepoOps
LastRepoCall ==
    LET r == SelectSeq(calls, IsRepoCall) IN r[Len(r)]
IdsOf(seq)  == [i \in DOMAIN seq |-> seq[i].id]
ArgsOf(seq) == [i \in DOMAIN seq |-> seq[i].arg]
IsPrefix(a, b) == Len(a) <= Len(b) /\ SubSeq(b, 1, Len(a)) = a
Occurrences(seq, x) == Cardinality({ i \in DOMAIN seq : seq[i] = x })

\* the repository was not changed during the run
Static == mutations = 0
\* findUnlinkedAssets has returned its list to main
ScanReturned == pc \in {"awaitWrite", "exited"} /\ client # NoClient
\* the required configuration is present
HasConfig == SPACE_ID \notin {Undefined, ""} /\ ACCESS_TOKEN \notin {Undefined, ""}

\* C1: with a static repository and no failing call, after findUnlinkedAssets
\* returns the list holds the id of every asset without linking entries
\* exactly once and the id of no other asset.
C1_ExactlyTheUnlinked ==
    ScanReturned /\ Static /\ ~failed =>
        /\ \A a \in Range(repoAssets) :
              Occurrences(IdsOf(unlinkedAssets), a)
                  = IF refs[a] = 0 THEN 1 ELSE 0
        /\ Range(IdsOf(unlinkedAssets)) \subseteq Range(repoAssets)

C1_Witness ==
    /\ ScanReturned /\ Static /\ ~failed
    /\ Len(repoAssets) = 3 /\ limit = 2
    /\ refs[1] = 1 /\ refs[2] = 0 /\ refs[3] = 0
    /\ IdsOf(unlinkedAssets) = << 2, 3 >>

\* C2: with a static repository and no failing call the pages are requested
\* at offsets 0, P, 2P, ... and, taken in order, hold every asset exactly
\* once: nothing is fetched twice and nothing is left out at the end.
C2_PagesCoverOnce ==
    /\ \A k \in DOMAIN PageCalls : PageCalls[k].arg = (k - 1) * limit
    /\ Static /\ ~failed => IsPrefix(fetched, repoAssets)
    /\ ScanReturned /\ Static /\ ~failed => fetched = repoAssets

C2_Witness ==
    /\ ScanReturned /\ Static /\ ~failed
    /\ Len(repoAssets) = 2 * limit
    /\ fetched = << 1, 2 >>
    /\ ArgsOf(PageCalls) = << 0, 1, 2 >>

\* C3: once a page fetch or a reference query has failed, the scan issues no
\* further repository call and the list stays as it was before the error;
\* the run goes on to the report write, and the file written holds that list.
C3_StopOnBatchError ==
    /\ [][failed' => /\ RepoCalls(calls') = RepoCalls(calls)
                     /\ unlinkedAssets' = unlinkedAssets]_vars
    /\ [](failed /\ pc = "exited" =>
              /\ Len(WriteCalls) = 1
              /\ report.written => report.content = unlinkedAssets /\ exitCode = 0)

C3_Witness ==
    /\ failed /\ pc = "exited" /\ exitCode = 0
    /\ Len(fetched) = 2 /\ Len(answers) = 1 /\ Len(RefCalls) = 2
    /\ Len(report.content) = 1

\* C4: with the space id or the access token absent the process exits with
\* code 1 before any repository call and before any file write; an absent
\* environment name alone is no error: the client is created for "master".
C4_MissingConfigExits ==
    pc # "startup" =>
        /\ SPACE_ID = Undefined \/ ACCESS_TOKEN = Undefined =>
              /\ pc = "exited" /\ exitCode = 1
              /\ calls = << >> /\ pending = {} /\ ~report.written
        /\ HasConfig /\ ENVIRONMENT = Undefined =>
              /\ client.environment = "master"
              /\ pc = "exited" => Len(WriteCalls) = 1

C4_Witness ==
    /\ pc = "exited" /\ exitCode = 1
    /\ SPACE_ID = "space1" /\ ACCESS_TOKEN = Undefined
    /\ calls = << >>

\* C5: the exit code is 0 when the configuration is present and the report
\* write succeeds (nothing found, something found, or the scan stopped on an
\* error); it is 1 when the configuration is missing, and 1 with no summary
\* printed when the report write fails.
C5_ExitCodes ==
    pc = "exited" =>
        /\ HasConfig /\ report.written => exitCode = 0 /\ summary # "none"
        /\ ~HasConfig => exitCode = 1
        /\ HasConfig /\ ~report.written => exitCode = 1 /\ summary = "none"

C5_Witness ==
    /\ pc = "exited" /\ HasConfig /\ ~report.written
    /\ exitCode = 1 /\ Len(unlinkedAssets) > 0

\* C7: every entry of the list belongs to an asset whose reference query was
\* answered with total 0, and no asset whose query was answered with another
\* total is in the list, whatever happens to the repository meanwhile.
C7_OnlyZeroTotals ==
    /\ \A i \in DOMAIN unlinkedAssets :
          \E j \in DOMAIN answers :
              answers[j].id = unlinkedAssets[i].id /\ answers[j].total = 0
    /\ \A j \in DOMAIN answers :
          answers[j].total # 0 =>
              \A i \in DOMAIN unlinkedAssets :
                  unlinkedAssets[i].id # answers[j].id
    /\ report.written => report.content = unlinkedAssets

C7_Witness ==
    /\ pc = "exited" /\ report.written /\ mutations > 0
    /\ \E i \in DOMAIN report.content : refs[report.content[i].id] > 0

\* C8: at most one call is outstanding; reference queries are issued and
\* answered one at a time in page order, all of them before the next page is
\* requested; the single report write is issued after the last repository
\* call has completed.
C8_Sequential ==
    /\ Cardinality(pending) <= 1
    /\ IsPrefix(IdsOf(answers), fetched)
    /\ IsPrefix(ArgsOf(RefCalls), fetched)
    /\ Len(RefCalls) - Len(answers) \in {0, 1}
    /\ (\E c \in pending : c.op = "getAssets") => IdsOf(answers) = fetched
    /\ Len(WriteCalls) > 0 =>
          /\ Len(WriteCalls) = 1
          /\ calls[Len(calls)].op = "writeFile"
          /\ \A c \in pending : c.op = "writeFile"

C8_Witness ==
    /\ \E c \in pending : c.op = "getAssets" /\ c.arg = 2
    /\ limit = 2 /\ IdsOf(answers) = << 1, 2 >>

\* C9: the scan terminates; an empty page ends it with no reference query
\* and no further page request; a page is requested only first or after a
\* full page; with a static repository of N assets and no failing call the
\* scan issues N \div P + 1 page requests and N reference queries.
C9_Termination ==
    /\ <>(pc = "exited")
    /\ [](calls # << >> /\ assets = << >> /\ pc # "awaitAssets" =>
              /\ ~hasMoreAssets
              /\ LastRepoCall.op = "getAssets")
    /\ [](pc = "awaitAssets" => Len(PageCalls) = 1 \/ Len(assets) = limit)
    /\ [](ScanReturned /\ Static /\ ~failed =>
              /\ Len(PageCalls) = (Len(repoAssets) \div limit) + 1
              /\ Len(RefCalls) = Len(repoAssets))

C9_Witness ==
    /\ pc = "exited" /\ Static /\ ~failed
    /\ limit = 2 /\ Len(repoAssets) = 3
    /\ Len(PageCalls) = 2 /\ Len(RefCalls) = 3

====
